---- MODULE Spec2Model ----
(***************************************************************************)
(* NeuroSonus (src/app.py): one Streamlit script.  A run of the script     *)
(* loads the uploaded recording (at most 30 s), extracts three biomarkers  *)
(* (average pitch, mean zero-crossing rate, mean spectral centroid), draws *)
(* a peak-referenced mel spectrogram and displays a simulated risk status. *)
(*                                                                         *)
(* Abstraction of the signal: a recording is a sequence of one-second      *)
(* chunks.  For each chunk the library primitives (piptrack,               *)
(* zero_crossing_rate, spectral_centroid, melspectrogram) yield one entry: *)
(* f0 in Hz (0 = no pitch detected), zc = zero-crossing rate in 1/100,     *)
(* cent = centroid in Hz, db = log power.  np.mean is kept as the exact    *)
(* fraction num/den, so that the mean of an empty selection is 0/0 (NaN).  *)
(***************************************************************************)
EXTENDS Integers, Sequences, FiniteSets, TLC

VARIABLES uploaded_file, pc, exc, attempts, y, pitch, zcr, sc, S_dB,
          risk_score, page, pending, prev

vars == <<uploaded_file, pc, exc, attempts, y, pitch, zcr, sc, S_dB,
          risk_score, page, pending, prev>>

---------------------------------------------------------------------------
(* Bounds of the model and constants of the program *)

\* longest recording considered, in seconds (longer than DURATION)
MaxSeconds == 32

\* librosa.load(audio_file, duration=30)
DURATION == 30
\* if pitch < 100 or pitch > 300
PitchLow == 100
PitchHigh == 300
\* risk_score += 30
PitchPenalty == 30
\* if zcr > 0.1 (rates are counted in 1/100, so 0.1 is 10)
ZcrThreshold == 10
\* risk_score += 40
ZcrPenalty == 40
\* if risk_score < 30 / elif risk_score < 70
LowCut == 30
HighCut == 70

---------------------------------------------------------------------------
(* Recordings *)

Chunk(f, z, c, d) == [f0 |-> f, zc |-> z, cent |-> c, db |-> d]

Silence == Chunk(0, 0, 0, -80)

Kinds == { Silence,
           Chunk(50, 0, 500, -30),
           Chunk(100, 10, 1000, -20),
           Chunk(200, 20, 1500, -20),
           Chunk(300, 10, 2000, -10),
           Chunk(400, 20, 3000, -10) }

Rep(c, n) == [i \in 1..n |-> c]

Lengths == {1} \cup (DURATION..MaxSeconds)

Splits(n) == IF n > DURATION THEN {DURATION} ELSE {n \div 2, n}

\* a recording: k seconds of one kind followed by n-k seconds of another
Files == { Rep(a, k) \o Rep(b, n - k) :
             <<a, b, n, k>> \in { t \in Kinds \X Kinds \X Lengths \X (0..MaxSeconds) :
                                    t[4] \in Splits(t[3]) } }

\* where a library call of the run raises, if anywhere
Faults == {"none", "load", "features", "spectrogram"}

Uploads == [file : Files, fault : Faults]

NoFile == [file |-> <<>>, fault |-> "none"]

---------------------------------------------------------------------------
(* Numbers: np.mean as an exact fraction; 0/0 is NaN *)

RECURSIVE Sum(_)
Sum(s) == IF s = <<>> THEN 0 ELSE Head(s) + Sum(Tail(s))

Mean(s) == [num |-> Sum(s), den |-> Len(s)]

IsNaN(a) == a.den = 0

\* comparisons with a float: every comparison with NaN is False
Lt(a, k) == a.den > 0 /\ a.num < k * a.den
Gt(a, k) == a.den > 0 /\ a.num > k * a.den
Eq(a, k) == a.den > 0 /\ a.num = k * a.den

\* a name of the script that is not bound yet
Unbound == [num |-> 0, den |-> -1]

---------------------------------------------------------------------------
(* analyze_audio *)

Min(a, b) == IF a < b THEN a ELSE b

\* a load that ignores the duration argument
librosa_load_whole(file) == file

\* y, sr = librosa.load(audio_file, duration=30): the leading 30 s at most
librosa_load(file) == SubSeq(file, 1, Min(Len(file), DURATION))

\* pitches, magnitudes = librosa.piptrack(y=y, sr=sr)
piptrack(buf) == [i \in 1..Len(buf) |-> buf[i].f0]

IsVoiced(f) == f > 0

\* np.mean(pitches[pitches > 0]): the mean of the selection, 0/0 when it is empty
AvgPitch(pitches) == Mean(SelectSeq(pitches, IsVoiced))

zero_crossing_rate(buf) == [i \in 1..Len(buf) |-> buf[i].zc]

spectral_centroid(buf) == [i \in 1..Len(buf) |-> buf[i].cent]

melspectrogram(buf) == [i \in 1..Len(buf) |-> buf[i].db]

Max(S) == CHOOSE m \in S : \A x \in S : x <= m

Range(s) == { s[i] : i \in 1..Len(s) }

\* librosa.power_to_db(S, ref=np.max): levels relative to the largest cell
power_to_db(S) == [i \in 1..Len(S) |-> S[i] - Max(Range(S))]

\* the names the extraction steps read and bind
NS == [y |-> y, pitch |-> pitch, zcr |-> zcr, sc |-> sc, S_dB |-> S_dB]

IsSilent(c) == c = Silence

RECURSIVE TrimLeading(_)
TrimLeading(buf) ==
    IF buf # <<>> /\ IsSilent(Head(buf)) /\ Len(buf) > 1
    THEN TrimLeading(Tail(buf)) ELSE buf

PitchStep(ns) == [ns EXCEPT !.pitch = AvgPitch(piptrack(ns.y))]

\* a roughness step that trims leading silence and rebinds y
ZcrStepTrim(ns) ==
    [ns EXCEPT !.y = TrimLeading(ns.y),
               !.zcr = Mean(zero_crossing_rate(TrimLeading(ns.y)))]

ZcrStep(ns) == [ns EXCEPT !.zcr = Mean(zero_crossing_rate(ns.y))]

CentroidStep(ns) == [ns EXCEPT !.sc = Mean(spectral_centroid(ns.y))]

SpectrogramStep(ns) == [ns EXCEPT !.S_dB = power_to_db(melspectrogram(ns.y))]

Bind(ns) ==
    /\ y' = ns.y
    /\ pitch' = ns.pitch
    /\ zcr' = ns.zcr
    /\ sc' = ns.sc
    /\ S_dB' = ns.S_dB

---------------------------------------------------------------------------
(* the risk assessment block *)

LowRisk == "Low Risk"
ModerateRisk == "Moderate Risk"
HighRisk == "High Risk"

RecLow == "Next routine scan in 3 months."
RecModerate == "Enable daily monitoring to establish baseline."
RecHigh == "Consult a neurologist. Download Clinical Report."

\* the pitch condition written with 'and'
PitchFlagAnd(p) == Lt(p, PitchLow) /\ Gt(p, PitchHigh)

\* pitch < 100 or pitch > 300
PitchFlag(p) == Lt(p, PitchLow) \/ Gt(p, PitchHigh)

\* the roughness condition written with >=
ZcrFlagGe(z) == Gt(z, ZcrThreshold) \/ Eq(z, ZcrThreshold)

\* zcr > 0.1
ZcrFlag(z) == Gt(z, ZcrThreshold)

\* a score that is not reset at the start of the block
StaleRisk == risk_score

\* risk_score = 0
FreshRisk == 0

RiskScore(r0, p, z) ==
    LET r1 == IF PitchFlag(p) THEN r0 + PitchPenalty ELSE r0
    IN  IF ZcrFlag(z) THEN r1 + ZcrPenalty ELSE r1

Info(s, rec) == << <<"status", s>>, <<"caption", rec>> >>

\* the cut-offs written with <=
DisplayLe(r) ==
    IF r <= LowCut THEN Info(LowRisk, RecLow)
    ELSE IF r <= HighCut THEN Info(ModerateRisk, RecModerate)
    ELSE Info(HighRisk, RecHigh)

\* the chain written with 'if' in place of 'elif'
DisplayIfIf(r) ==
    (IF r < LowCut THEN Info(LowRisk, RecLow) ELSE <<>>)
    \o (IF r < HighCut THEN Info(ModerateRisk, RecModerate) ELSE Info(HighRisk, RecHigh))

\* if risk_score < 30: ... elif risk_score < 70: ... else: ...
Display(r) ==
    IF r < LowCut THEN Info(LowRisk, RecLow)
    ELSE IF r < HighCut THEN Info(ModerateRisk, RecModerate)
    ELSE Info(HighRisk, RecHigh)

AssessBlock ==
    LET r == RiskScore(FreshRisk, pitch, zcr)
    IN  /\ risk_score' = r
        /\ page' = page \o << <<"subheader", "AI Risk Assessment">> >> \o Display(r)

---------------------------------------------------------------------------
(* the script: one run per upload *)

\* an exception that leaves the script
RaiseUncaught(cause) == pc' = "crashed" /\ exc' = cause

\* try: ... except Exception as e:
Raise(cause) == pc' = "except" /\ exc' = cause

\* observer: nothing recorded yet
NoneSeen == [set |-> FALSE, runs |-> 0, input |-> NoFile, outcome |-> <<>>]

ErrorMessage(cause) == <<"error", "Error during analysis: " \o cause>>

Init ==
    /\ uploaded_file = NoFile
    /\ pc = "done"
    /\ exc = "none"
    /\ attempts = 0
    /\ y = <<>>
    /\ pitch = Unbound
    /\ zcr = Unbound
    /\ sc = Unbound
    /\ S_dB = <<>>
    /\ risk_score = 0
    /\ page = << <<"footer", "NeuroSonus Prototype">> >>
    /\ pending = {}
    /\ prev = NoneSeen

\* the script is run again from the top: the page is rendered anew and the
\* names of the last run are gone (risk_score is kept as the last run left
\* it, to show that the assessment block rebinds it before it reads it)
Rerun(f) ==
    /\ pc = "done"
    /\ uploaded_file' = f
    /\ exc' = "none"
    /\ attempts' = 0
    /\ y' = <<>>
    /\ pitch' = Unbound
    /\ zcr' = Unbound
    /\ sc' = Unbound
    /\ S_dB' = <<>>
    /\ UNCHANGED <<risk_score, pending, prev>>

\* the user uploads a recording
Upload ==
    \E f \in Uploads :
        /\ Rerun(f)
        /\ page' = << <<"audio", "audio/wav">> >>
        /\ pc' = "load"

\* the user removes the recording: the run skips the analysis
Clear ==
    /\ uploaded_file # NoFile
    /\ Rerun(NoFile)
    /\ page' = << <<"footer", "NeuroSonus Prototype">> >>
    /\ pc' = "done"

Load ==
    /\ pc = "load"
    /\ attempts' = attempts + 1
    /\ IF uploaded_file.fault = "load"
       THEN Raise("load") /\ UNCHANGED y
       ELSE y' = librosa_load(uploaded_file.file) /\ pc' = "extract" /\ UNCHANGED exc
    /\ UNCHANGED <<uploaded_file, pitch, zcr, sc, S_dB, risk_score, page, pending, prev>>

Extract ==
    /\ pc = "extract"
    /\ IF uploaded_file.fault = "features"
       THEN Raise("features") /\ UNCHANGED <<y, pitch, zcr, sc, S_dB>>
       ELSE Bind(CentroidStep(ZcrStep(PitchStep(NS)))) /\ pc' = "dashboard" /\ UNCHANGED exc
    /\ UNCHANGED <<uploaded_file, attempts, risk_score, page, pending, prev>>

Dashboard ==
    /\ pc = "dashboard"
    /\ page' = page \o << <<"success", "Analysis complete. Extracting features...">>,
                          <<"metrics", "pitch, zcr, sc">> >>
    /\ pc' = "spectrogram"
    /\ UNCHANGED <<uploaded_file, exc, attempts, y, pitch, zcr, sc, S_dB, risk_score,
                   pending, prev>>

Spectrogram ==
    /\ pc = "spectrogram"
    /\ IF uploaded_file.fault = "spectrogram"
       THEN /\ Raise("spectrogram")
            /\ page' = page \o << <<"subheader", "Spectrogram Analysis">> >>
            /\ UNCHANGED <<y, pitch, zcr, sc, S_dB>>
       ELSE /\ Bind(SpectrogramStep(NS))
            /\ page' = page \o << <<"subheader", "Spectrogram Analysis">>,
                                  <<"pyplot", "S_dB">> >>
            /\ pc' = "assess"
            /\ UNCHANGED exc
    /\ UNCHANGED <<uploaded_file, attempts, risk_score, pending, prev>>

Assess ==
    /\ pc = "assess"
    /\ AssessBlock
    /\ pc' = "footer"
    /\ UNCHANGED <<uploaded_file, exc, attempts, y, pitch, zcr, sc, S_dB, pending, prev>>

Except ==
    /\ pc = "except"
    /\ page' = page \o <<ErrorMessage(exc)>>
    /\ pc' = "footer"
    /\ UNCHANGED <<uploaded_file, exc, attempts, y, pitch, zcr, sc, S_dB, risk_score,
                   pending, prev>>

Footer ==
    /\ pc = "footer"
    /\ page' = page \o << <<"footer", "NeuroSonus Prototype">> >>
    /\ pc' = "done"
    /\ UNCHANGED <<uploaded_file, exc, attempts, y, pitch, zcr, sc, S_dB, risk_score,
                   pending, prev>>

Next ==
    \/ Upload
    \/ Clear
    \/ Load
    \/ Extract
    \/ Dashboard
    \/ Spectrogram
    \/ Assess
    \/ Except
    \/ Footer

Spec == Init /\ [][Next]_vars

---------------------------------------------------------------------------
(* Repeated runs, with an observer that keeps the outcome of one earlier run *)

ProbeKinds == { Silence, Chunk(50, 0, 500, -30), Chunk(400, 20, 3000, -10) }

\* the shortest and the longest recordings made of these kinds
ProbeUploads ==
    { u \in Uploads : /\ Len(u.file) \in {1, MaxSeconds}
                      /\ \A i \in 1..Len(u.file) : u.file[i] \in ProbeKinds }

\* what a run reports
Outcome == [pitch |-> pitch, zcr |-> zcr, sc |-> sc, S_dB |-> S_dB, page |-> page]

UploadProbe ==
    \E f \in ProbeUploads :
        /\ pc = "done"
        /\ uploaded_file' = f
        /\ exc' = "none"
        /\ attempts' = 0
        /\ y' = <<>>
        /\ pitch' = Unbound
        /\ zcr' = Unbound
        /\ sc' = Unbound
        /\ S_dB' = <<>>
        /\ page' = << <<"audio", "audio/wav">> >>
        /\ pc' = "load"
        /\ prev' = IF prev.set THEN [prev EXCEPT !.runs = Min(prev.runs + 1, 2)] ELSE prev
        /\ UNCHANGED <<risk_score, pending>>

Record ==
    /\ pc = "done"
    /\ uploaded_file # NoFile
    /\ ~prev.set
    /\ prev' = [set |-> TRUE, runs |-> 0, input |-> uploaded_file, outcome |-> Outcome]
    /\ UNCHANGED <<uploaded_file, pc, exc, attempts, y, pitch, zcr, sc, S_dB,
                   risk_score, page, pending>>

NextRuns ==
    \/ UploadProbe
    \/ Record
    \/ Load
    \/ Extract
    \/ Dashboard
    \/ Spectrogram
    \/ Assess
    \/ Except
    \/ Footer

SpecRuns == Init /\ [][NextRuns]_vars

---------------------------------------------------------------------------
(* The extraction steps taken in any order and joined before the assessment *)

Steps == {"pitch", "zcr", "centroid", "spectrogram"}

StepOf(s, ns) ==
    CASE s = "pitch" -> PitchStep(ns)
      [] s = "zcr" -> ZcrStep(ns)
      [] s = "centroid" -> CentroidStep(ns)
      [] s = "spectrogram" -> SpectrogramStep(ns)

InitOrder ==
    /\ uploaded_file \in { u \in Uploads : u.fault = "none" }
    /\ pc = "steps"
    /\ exc = "none"
    /\ attempts = 1
    /\ y = librosa_load(uploaded_file.file)
    /\ pitch = Unbound
    /\ zcr = Unbound
    /\ sc = Unbound
    /\ S_dB = <<>>
    /\ risk_score = 0
    /\ page = << <<"audio", "audio/wav">> >>
    /\ pending = Steps
    /\ prev = NoneSeen

RunStep ==
    \E s \in pending :
        /\ pc = "steps"
        /\ Bind(StepOf(s, NS))
        /\ pending' = pending \ {s}
        /\ prev' = [prev EXCEPT !.outcome = Append(@, s)]
        /\ UNCHANGED <<uploaded_file, pc, exc, attempts, risk_score, page>>

Join ==
    /\ pc = "steps"
    /\ pending = {}
    /\ AssessBlock
    /\ pc' = "joined"
    /\ UNCHANGED <<uploaded_file, exc, attempts, y, pitch, zcr, sc, S_dB, pending, prev>>

NextOrder ==
    \/ RunStep
    \/ Join

SpecOrder == InitOrder /\ [][NextOrder]_vars

---------------------------------------------------------------------------
(* What a run displays *)

IsStatus(e) == e[1] = "status"
IsCaption(e) == e[1] = "caption"
IsError(e) == e[1] = "error"

Statuses == SelectSeq(page, IsStatus)
Captions == SelectSeq(page, IsCaption)
Errors == SelectSeq(page, IsError)

StatusText == IF Len(Statuses) = 1 THEN Statuses[1][2] ELSE "none"
CaptionText == IF Len(Captions) = 1 THEN Captions[1][2] ELSE "none"

RunSucceeded == pc = "done" /\ uploaded_file # NoFile /\ exc = "none"
RunFailed == pc = "done" /\ exc # "none"

\* the conditions of the assessment, stated on the values
OutsideRange(p) == p.den > 0 /\ (p.num < PitchLow * p.den \/ p.num > PitchHigh * p.den)
InsideRange(p) == p.den > 0 /\ p.num >= PitchLow * p.den /\ p.num <= PitchHigh * p.den
AboveThreshold(z) == z.den > 0 /\ z.num > ZcrThreshold * z.den
AtThreshold(z) == z.den > 0 /\ z.num = ZcrThreshold * z.den

\* the categories of the design, by their recommendation: Normal is the routine
\* one (Low Risk), Elevated the clinical one (High Risk); the script has no
\* Inconclusive status
Inconclusive == "Inconclusive"
Normal == LowRisk
Elevated == HighRisk

ZcrValues == { Mean(<<c.zc>>) : c \in Kinds }

---------------------------------------------------------------------------
(* C1 *)

---------------------------------------------------------------------------
(* C2 *)

---------------------------------------------------------------------------
(* C3 *)

NoValidEntries(buf) == \A i \in 1..Len(buf) : ~(piptrack(buf)[i] > 0)

\* C3: when the pitch track has no entry > 0 the average pitch is exactly 0,
\* computed without a division by zero, and never NaN.
C3_EmptyTrackAverageIsZero ==
    (pitch # Unbound /\ y # <<>> /\ NoValidEntries(y)) =>
        (~IsNaN(pitch) /\ Eq(pitch, 0))

---------------------------------------------------------------------------
(* C4 *)

AllSilent(file) == \A i \in 1..Len(file) : file[i] = Silence

\* C4: a silent recording yields roughness 0 and average pitch 0 and is
\* reported as Inconclusive, never as Normal / low risk and never as an error.
C4_SilenceIsInconclusive ==
    (pc = "done" /\ uploaded_file # NoFile /\ uploaded_file.fault = "none"
       /\ AllSilent(uploaded_file.file)) =>
        /\ Errors = <<>>
        /\ Eq(zcr, 0)
        /\ Eq(pitch, 0)
        /\ StatusText = Inconclusive
        /\ StatusText # Normal

---------------------------------------------------------------------------
(* C5 *)

RecommendationOf(s) ==
    CASE s = LowRisk -> RecLow
      [] s = ModerateRisk -> RecModerate
      [] s = HighRisk -> RecHigh
      [] OTHER -> "none"

CategoryOf(p, z) ==
    CASE OutsideRange(p) /\ AboveThreshold(z) -> HighRisk
      [] OutsideRange(p) /\ ~AboveThreshold(z) -> ModerateRisk
      [] ~OutsideRange(p) /\ AboveThreshold(z) -> ModerateRisk
      [] OTHER -> LowRisk

---------------------------------------------------------------------------
(* C6 *)

\* C6: a failure of a library call ends the analysis of that run: one error
\* message with the cause is shown, no status and no recommendation, the
\* analysis is called once only, and the script goes on to the footer.
C6_FailureIsReported ==
    /\ pc # "crashed"
    /\ attempts <= 1
    /\ RunFailed =>
          /\ exc = uploaded_file.fault
          /\ Errors = << <<"error", "Error during analysis: " \o exc>> >>
          /\ Statuses = <<>>
          /\ Captions = <<>>
          /\ attempts = 1
          /\ page[Len(page)][1] = "footer"

C6_Witness ==
    RunFailed /\ exc = "spectrogram" /\ Len(Errors) = 1 /\ page[Len(page)][1] = "footer"

---------------------------------------------------------------------------
(* C7 *)

\* C7: a run on an input reports what an earlier run on the same input
\* reported, whatever was run in between.
C7_SameInputSameOutcome ==
    (pc = "done" /\ prev.set /\ uploaded_file = prev.input) => Outcome = prev.outcome

C7_Witness ==
    /\ pc = "done"
    /\ prev.set
    /\ prev.runs = 2
    /\ uploaded_file = prev.input
    /\ exc = "none"
    /\ StatusText = LowRisk

---------------------------------------------------------------------------
(* C8 *)

Fresh(file) ==
    [y |-> librosa_load(file), pitch |-> Unbound, zcr |-> Unbound, sc |-> Unbound,
     S_dB |-> <<>>]

\* the steps in the order of the script
Sequential(file) == SpectrogramStep(CentroidStep(ZcrStep(PitchStep(Fresh(file)))))

\* C8: in every order of the steps the buffer stays as loaded, each step
\* yields what it yields in the script's order, and the joined assessment is
\* the sequential one.
C8_AnyOrderSameResult ==
    LET seq == Sequential(uploaded_file.file)
    IN  /\ y = librosa_load(uploaded_file.file)
        /\ pitch = (IF "pitch" \in pending THEN Unbound ELSE seq.pitch)
        /\ zcr = (IF "zcr" \in pending THEN Unbound ELSE seq.zcr)
        /\ sc = (IF "centroid" \in pending THEN Unbound ELSE seq.sc)
        /\ S_dB = (IF "spectrogram" \in pending THEN <<>> ELSE seq.S_dB)
        /\ pc = "joined" =>
              /\ NS = seq
              /\ Statuses \o Captions = Display(RiskScore(0, seq.pitch, seq.zcr))

C8_Witness ==
    /\ pc = "joined"
    /\ prev.outcome = <<"spectrogram", "centroid", "zcr", "pitch">>
    /\ uploaded_file.file[1] = Silence
    /\ Len(Statuses) = 1

---------------------------------------------------------------------------
(* C9 *)

\* C9: the loaded buffer is never longer than 30 s; a longer recording is cut
\* to exactly its leading 30 s, a recording of at most 30 s is kept whole.
C9_LoadedAtMostDuration ==
    y # <<>> =>
        LET file == uploaded_file.file
        IN  /\ Len(y) <= DURATION
            /\ Len(y) = (IF Len(file) > DURATION THEN DURATION ELSE Len(file))
            /\ \A i \in 1..Len(y) : y[i] = file[i]

C9_Witness ==
    /\ pc = "extract"
    /\ Len(uploaded_file.file) > DURATION
    /\ Len(y) = DURATION
    /\ uploaded_file.file[Len(uploaded_file.file)] # uploaded_file.file[1]

---------------------------------------------------------------------------
(* C10 *)

\* C10: risk_score is 0, 30, 40 or 70: 30 for pitch < 100 or pitch > 300 plus
\* 40 for zcr > 0.1; Low Risk exactly when neither holds, High Risk exactly
\* when both hold, Moderate Risk exactly when one holds; one status per run.
C10_ScoreAndStatusByFlags ==
    /\ risk_score \in {0, PitchPenalty, ZcrPenalty, PitchPenalty + ZcrPenalty}
    /\ RunSucceeded =>
          LET a == OutsideRange(pitch)
              b == AboveThreshold(zcr)
          IN  /\ risk_score = (IF a THEN PitchPenalty ELSE 0) + (IF b THEN ZcrPenalty ELSE 0)
              /\ Len(Statuses) = 1
              /\ (StatusText = LowRisk) <=> (~a /\ ~b)
              /\ (StatusText = HighRisk) <=> (a /\ b)
              /\ (StatusText = ModerateRisk) <=> (a # b)

C10_Witness ==
    RunSucceeded /\ risk_score = PitchPenalty + ZcrPenalty /\ StatusText = HighRisk

====
